---- MODULE Spec2Model ----
(***************************************************************************)
(* Model of ikawaha/navigator.                                             *)
(*                                                                         *)
(* Part 1: the driver process supervisor, webdriver/service/service.go     *)
(* and build.go: Service.Start, Service.Stop, Service.URL,                 *)
(* Service.WaitForBoot and Service.checkStatus, with the child process and *)
(* the clock they run against.                                             *)
(*                                                                         *)
(* Part 2: the selector chains of selectors.go (Append, Single, At over    *)
(* Go slices) and the resolution of a chain into elements, selectable.go   *)
(* (getElements, retrieveElements, getElementsAtLeastOne,                  *)
(* getElementExactlyOne), against a document behind a WebDriver session.   *)
(***************************************************************************)
EXTENDS Integers, Sequences, FiniteSets, TLC

(***************************************************************************)
(* Bounds of the model.                                                    *)
(***************************************************************************)
\* Start and Stop calls made in one behaviour (all callers together).
MaxCalls == 3
\* Start and Stop calls made in one behaviour beside a WaitForBoot.
MaxBootCalls == 2
\* Ports the OS hands out to getFreeAddress.
MaxPort == 2
\* Child processes that can exist at the same time.
MaxProcs == 2
\* The longest timeout WaitForBoot is called with, in ticks.
MaxTimeout == 2
\* Ticks the clock is followed for after the longest deadline.
MaxLate == 1
\* The last tick of the clock.
MaxTime == MaxTimeout + MaxLate

\* Goroutines that call Start, Stop and URL on the one Service.
Procs == {"a", "b"}

\* The zero value of Service.command (a nil *exec.Cmd); a handle is a pid.
NoCmd == 0
\* The value of Service.mu when nobody holds it.
Unlocked == "free"
\* The goroutine spawned by WaitForBoot, as a holder of Service.mu.
Poller == "poller"

Pids == 1..MaxProcs
Ports == 1..MaxPort

(***************************************************************************)
(* Templates (text/template as build.go uses it).  A string is a sequence  *)
(* of atoms, so concatenation is \o and the empty string is << >>.  A      *)
(* template is a sequence of pieces: literal text, a field action          *)
(* {{.Name}}, or an action that does not parse.                            *)
(***************************************************************************)
Lit(s) == [k |-> "lit", v |-> s]
Fld(s) == [k |-> "fld", v |-> s]
Bad == [k |-> "bad", v |-> "{{"]

\* type addressInfo, as getFreeAddress fills it for the port the OS chose.
AddressInfo(p) ==
  [Address |-> <<"localhost", ":", ToString(p)>>,
   Host |-> <<"localhost">>,
   Port |-> <<ToString(p)>>]

Err(msg) == [ok |-> FALSE, err |-> msg]
Ok(val) == [ok |-> TRUE, val |-> val]

\* template.New(..).Parse: fails on an action that does not parse.
TemplateParse(tmpl) ==
  IF \E i \in 1..Len(tmpl) : tmpl[i].k = "bad"
  THEN Err("template: parse error")
  ELSE Ok(tmpl)

RECURSIVE ExecutePieces(_, _)
\* Template.Execute: writes piece after piece, fails at the first field the
\* data does not have.
ExecutePieces(tmpl, address) ==
  IF tmpl = << >> THEN Ok(<< >>)
  ELSE LET p == Head(tmpl) IN
       IF p.k = "fld" /\ p.v \notin DOMAIN address
       THEN Err("template: can't evaluate field")
       ELSE LET rest == ExecutePieces(Tail(tmpl), address) IN
            IF ~rest.ok THEN rest
            ELSE Ok((IF p.k = "fld" THEN address[p.v] ELSE <<p.v>>) \o rest.val)

\* Parse then Execute, as buildURL and the loop of buildCommand do.
Render(tmpl, address) ==
  LET parsed == TemplateParse(tmpl) IN
  IF ~parsed.ok THEN parsed ELSE ExecutePieces(parsed.val, address)

buildURL(urlT, address) == Render(urlT, address)

RECURSIVE buildArgs(_, _)
\* The loop of buildCommand: the rendered arguments, or the first error.
buildArgs(commandT, address) ==
  IF commandT = << >> THEN Ok(<< >>)
  ELSE LET arg == Render(Head(commandT), address) IN
       IF ~arg.ok THEN arg
       ELSE LET rest == buildArgs(Tail(commandT), address) IN
            IF ~rest.ok THEN rest ELSE Ok(<<arg.val>> \o rest.val)

\* buildCommand without the test of len(commandT).
buildCommandNoEmptyCheck(commandT, address) ==
  LET args == buildArgs(commandT, address) IN
  IF ~args.ok THEN args
  ELSE Ok([Path |-> IF args.val = << >> THEN << >> ELSE args.val[1],
           Args |-> args.val])

buildCommand(commandT, address) ==
  IF Len(commandT) = 0 THEN Err("empty command")
  ELSE LET args == buildArgs(commandT, address) IN
       IF ~args.ok THEN args
       ELSE Ok([Path |-> args.val[1], Args |-> args.val])

\* The (urlT, commandT) pairs a Service is constructed with.
Configs ==
  { [urlT |-> <<Lit("http://"), Fld("Address")>>,
     commandT |-> << <<Lit("driver")>>, <<Lit("--port="), Fld("Port")>> >>],
    [urlT |-> <<Lit("localhost")>>,
     commandT |-> << <<Lit("sleep")>>, <<Lit("1")>> >>],
    [urlT |-> <<Lit("localhost")>>,
     commandT |-> << >>],
    [urlT |-> <<Lit("http://"), Fld("Address")>>,
     commandT |-> << <<Lit("abc")>>, <<Fld("Unknown")>> >>],
    [urlT |-> <<Lit("http://"), Fld("Address")>>,
     commandT |-> << <<Lit("abc")>>, <<Bad>> >>],
    [urlT |-> <<Fld("Unknown")>>,
     commandT |-> << <<Lit("driver")>> >>] }

\* runtime.GOOS, which Stop switches on.
GOOS == {"windows", "linux"}

\* A nil error.
NilErr == << >>
\* errors.New(msg)
NewError(msg) == <<msg>>
\* fmt.Errorf(prefix + "%w", err)
Wrap(prefix, err) == <<prefix>> \o err

(***************************************************************************)
(* State.                                                                  *)
(***************************************************************************)
VARIABLES
  urlT,       \* Service.urlT
  commandT,   \* Service.commandT
  goos,       \* runtime.GOOS of the build
  mu,         \* Service.mu: its holder, or Unlocked
  baseURL,    \* Service.baseURL
  command,    \* Service.command: NoCmd, or the pid of the started exec.Cmd
  procs,      \* the OS process table, for the pids the Service can be given
  pc,         \* where each calling goroutine is
  frame,      \* the locals of the call each goroutine is in
  log,        \* history: the Start and Stop calls that returned, in order
  callsLeft,  \* the Start and Stop calls the callers may still begin
  now,        \* ticks of 500 ms since WaitForBoot was called; MaxTime is "or later"
  wfb,        \* the WaitForBoot call: its position, context and result
  poll,       \* the goroutine WaitForBoot spawns: its position and locals
  impl,       \* which of the two versions of selectors.go is compiled
  heap,       \* the backing arrays of the selectors slices made so far
  chains,     \* the selectors values made so far, with how each was made
  doc,        \* the document the session's browser shows
  rs,         \* the resolution of a chain under way: position, locals, history
  sess        \* the session of a Page: its Connection, the browser's frame, history

svcVars == <<urlT, commandT, goos, mu, baseURL, command, procs, pc, frame, log,
            callsLeft>>
bootVars == <<now, wfb, poll>>
selVars == <<impl, heap, chains, doc, rs, sess>>
vars == <<urlT, commandT, goos, mu, baseURL, command, procs, pc, frame, log,
          callsLeft, now, wfb, poll, impl, heap, chains, doc, rs, sess>>

\* A nil selectors value: no backing array (arr 0), length 0.
NilSelectors == [arr |-> 0, len |-> 0]

\* How the zero value of selectors (the chain of a new page) came to be.
NoOrigin == [op |-> "new", from |-> 0, Type |-> "", Value |-> << >>, Index |-> 0]

\* The result of a resolution: the elements, or the error.
NoResult == [elements |-> << >>, err |-> << >>]

\* No resolution is under way and none has returned.
NoResolution ==
  [pc |-> "idle", op |-> "", entry |-> "", res |-> << >>,
   chain |-> << >>, step |-> 0, cur |-> << >>,
   i |-> 0, acc |-> << >>, reqs |-> << >>, raw |-> NoResult, out |-> NoResult,
   prev |-> [chain |-> << >>, out |-> NoResult, raw |-> NoResult,
             reqs |-> << >>, valid |-> FALSE]]

\* No session has been opened.
NoSession ==
  [page |-> "", conn |-> "", frame |-> 0, left |-> 0,
   last |-> [op |-> "", ctx |-> "", body |-> "", err |-> << >>, reqs |-> << >>]]

\* An empty document.
NoDoc == [tag |-> << >>, parent |-> << >>]

\* No selectors value has been derived yet, nothing is resolved.
InitSel ==
  /\ impl = "clonePlusOne"
  /\ heap = << >>
  /\ chains = << [ss |-> NilSelectors, snap |-> << >>, origin |-> NoOrigin] >>
  /\ doc = NoDoc
  /\ rs = NoResolution
  /\ sess = NoSession

NoFrame == [debug |-> FALSE, port |-> 0, pid |-> 0]
NoProc == [st |-> "none", sig |-> FALSE, port |-> 0, argv |-> << >>,
           up |-> FALSE, upAt |-> 0]

\* service.New(urlT, commandT), before any call.
InitService ==
  /\ mu = Unlocked
  /\ baseURL = << >>
  /\ command = NoCmd
  /\ procs = [p \in Pids |-> NoProc]
  /\ pc = [t \in Procs |-> "idle"]
  /\ frame = [t \in Procs |-> NoFrame]
  /\ log = << >>

\* A return of Start or Stop: the deferred s.mu.Unlock() runs, the caller
\* gets res.  The history keeps res with the handle and the base URL the
\* call leaves behind.
Return(t, op, res, cmd, url) ==
  /\ pc' = [pc EXCEPT ![t] = "idle"]
  /\ frame' = [frame EXCEPT ![t] = NoFrame]
  /\ mu' = Unlocked
  /\ log' = Append(log, [op |-> op, res |-> res, cmd |-> cmd, url |-> url])

Goto(t, label) == pc' = [pc EXCEPT ![t] = label]

(***************************************************************************)
(* Service.URL                                                             *)
(***************************************************************************)
CallURL(t) ==
  /\ pc[t] = "idle"
  /\ Goto(t, "url_read")
  /\ UNCHANGED <<callsLeft, urlT, commandT, goos, mu, baseURL, command, procs, frame, log, bootVars, selVars>>

\* return s.baseURL: no lock is taken.
URLRead(t) ==
  /\ pc[t] = "url_read"
  /\ Goto(t, "idle")
  /\ frame' = [frame EXCEPT ![t] = NoFrame]
  /\ UNCHANGED <<callsLeft, urlT, commandT, goos, mu, baseURL, command, procs, log, bootVars, selVars>>

(***************************************************************************)
(* Service.Start                                                           *)
(***************************************************************************)
CallStart(t) ==
  /\ pc[t] = "idle"
  /\ callsLeft > 0
  /\ callsLeft' = callsLeft - 1
  /\ \E debug \in BOOLEAN : frame' = [frame EXCEPT ![t].debug = debug]
  /\ Goto(t, "start_lock")
  /\ UNCHANGED <<urlT, commandT, goos, mu, baseURL, command, procs, log, bootVars, selVars>>

\* s.mu.Lock()
StartLock(t) ==
  /\ pc[t] = "start_lock"
  /\ mu = Unlocked
  /\ mu' = t
  /\ Goto(t, "start_check")
  /\ UNCHANGED <<callsLeft, urlT, commandT, goos, baseURL, command, procs, frame, log, bootVars, selVars>>

\* StartCheck without the test of s.command.
StartCheckUnguarded(t) ==
  /\ pc[t] = "start_check"
  /\ Goto(t, "start_addr")
  /\ UNCHANGED <<callsLeft, urlT, commandT, goos, mu, baseURL, command, procs, frame, log, bootVars, selVars>>

\* if s.command != nil { return errors.New("already running") }
StartCheck(t) ==
  /\ pc[t] = "start_check"
  /\ IF command # NoCmd
     THEN /\ Return(t, "Start", NewError("already running"), command, baseURL)
          /\ UNCHANGED <<callsLeft, urlT, commandT, goos, baseURL, command, procs, bootVars, selVars>>
     ELSE /\ Goto(t, "start_addr")
          /\ UNCHANGED <<callsLeft, urlT, commandT, goos, mu, baseURL, command, procs, frame, log, bootVars, selVars>>

\* address, err := getFreeAddress(ctx): the OS picks a port, or Listen fails.
StartAddrOk(t) ==
  /\ pc[t] = "start_addr"
  /\ \E p \in Ports : frame' = [frame EXCEPT ![t].port = p]
  /\ Goto(t, "start_url")
  /\ UNCHANGED <<callsLeft, urlT, commandT, goos, mu, baseURL, command, procs, log, bootVars, selVars>>

StartAddrFail(t) ==
  /\ pc[t] = "start_addr"
  /\ Return(t, "Start", Wrap("failed to locate a free port: ", NewError("listen")), command, baseURL)
  /\ UNCHANGED <<callsLeft, urlT, commandT, goos, baseURL, command, procs, bootVars, selVars>>

\* url, err := buildURL(s.urlT, address); s.baseURL = url
StartURL(t) ==
  /\ pc[t] = "start_url"
  /\ LET url == buildURL(urlT, AddressInfo(frame[t].port)) IN
     IF ~url.ok
     THEN /\ Return(t, "Start", Wrap("failed to parse URL: ", NewError(url.err)), command, baseURL)
          /\ UNCHANGED <<callsLeft, urlT, commandT, goos, baseURL, command, procs, bootVars, selVars>>
     ELSE /\ baseURL' = url.val
          /\ Goto(t, "start_build")
          /\ UNCHANGED <<callsLeft, urlT, commandT, goos, mu, command, procs, frame, log, bootVars, selVars>>

\* command, err := buildCommand(ctx, s.commandT, address)
StartBuild(t) ==
  /\ pc[t] = "start_build"
  /\ LET cmd == buildCommand(commandT, AddressInfo(frame[t].port)) IN
     IF ~cmd.ok
     THEN /\ Return(t, "Start", Wrap("failed to parse command: ", NewError(cmd.err)), command, baseURL)
          /\ UNCHANGED <<callsLeft, urlT, commandT, goos, baseURL, command, procs, bootVars, selVars>>
     ELSE /\ Goto(t, IF frame[t].debug THEN "start_pipe" ELSE "start_run")
          /\ UNCHANGED <<callsLeft, urlT, commandT, goos, mu, baseURL, command, procs, frame, log, bootVars, selVars>>

\* if debug { stdout, err := command.StdoutPipe(); if err != nil { return err } ... }
\* The goroutine that copies the pipe to the log touches no Service state.
StartPipeOk(t) ==
  /\ pc[t] = "start_pipe"
  /\ Goto(t, "start_run")
  /\ UNCHANGED <<callsLeft, urlT, commandT, goos, mu, baseURL, command, procs, frame, log, bootVars, selVars>>

StartPipeFail(t) ==
  /\ pc[t] = "start_pipe"
  /\ Return(t, "Start", NewError("pipe"), command, baseURL)
  /\ UNCHANGED <<callsLeft, urlT, commandT, goos, baseURL, command, procs, bootVars, selVars>>

\* The pid the OS gives the next child.
FreePids == {p \in Pids : procs[p].st = "none"}

\* command.Start() succeeds: the child runs.
StartRunOk(t) ==
  /\ pc[t] = "start_run"
  /\ FreePids # {}
  /\ LET pid == CHOOSE p \in FreePids : \A q \in FreePids : p <= q
         cmd == buildCommand(commandT, AddressInfo(frame[t].port)).val
     IN /\ procs' = [procs EXCEPT ![pid] =
                         [NoProc EXCEPT !.st = "running", !.port = frame[t].port,
                                        !.argv = cmd.Args]]
        /\ frame' = [frame EXCEPT ![t].pid = pid]
  /\ Goto(t, "start_set")
  /\ UNCHANGED <<callsLeft, urlT, commandT, goos, mu, baseURL, command, log, bootVars, selVars>>

\* command.Start() fails: no child.
StartRunFail(t) ==
  /\ pc[t] = "start_run"
  /\ Return(t, "Start", Wrap("failed to run command: ", NewError("exec")), command, baseURL)
  /\ UNCHANGED <<callsLeft, urlT, commandT, goos, baseURL, command, procs, bootVars, selVars>>

\* s.command = command; return nil
StartSet(t) ==
  /\ pc[t] = "start_set"
  /\ command' = frame[t].pid
  /\ Return(t, "Start", NilErr, frame[t].pid, baseURL)
  /\ UNCHANGED <<callsLeft, urlT, commandT, goos, baseURL, procs, bootVars, selVars>>

(***************************************************************************)
(* Service.Stop                                                            *)
(***************************************************************************)
CallStop(t) ==
  /\ pc[t] = "idle"
  /\ callsLeft > 0
  /\ callsLeft' = callsLeft - 1
  /\ Goto(t, "stop_lock")
  /\ UNCHANGED <<urlT, commandT, goos, mu, baseURL, command, procs, frame, log, bootVars, selVars>>

\* s.mu.Lock()
StopLock(t) ==
  /\ pc[t] = "stop_lock"
  /\ mu = Unlocked
  /\ mu' = t
  /\ Goto(t, "stop_check")
  /\ UNCHANGED <<callsLeft, urlT, commandT, goos, baseURL, command, procs, frame, log, bootVars, selVars>>

\* StopCheck that returns nil where there is nothing to stop.
StopCheckSilent(t) ==
  /\ pc[t] = "stop_check"
  /\ IF command = NoCmd
     THEN /\ Return(t, "Stop", NilErr, command, baseURL)
          /\ UNCHANGED <<callsLeft, urlT, commandT, goos, baseURL, command, procs, bootVars, selVars>>
     ELSE /\ Goto(t, "stop_signal")
          /\ UNCHANGED <<callsLeft, urlT, commandT, goos, mu, baseURL, command, procs, frame, log, bootVars, selVars>>

\* if s.command == nil { return errors.New("already stopped") }
StopCheck(t) ==
  /\ pc[t] = "stop_check"
  /\ IF command = NoCmd
     THEN /\ Return(t, "Stop", NewError("already stopped"), command, baseURL)
          /\ UNCHANGED <<callsLeft, urlT, commandT, goos, baseURL, command, procs, bootVars, selVars>>
     ELSE /\ Goto(t, "stop_signal")
          /\ UNCHANGED <<callsLeft, urlT, commandT, goos, mu, baseURL, command, procs, frame, log, bootVars, selVars>>

\* s.command.Process.Kill() on windows, .Signal(syscall.SIGTERM) elsewhere.
\* A killed child is gone at once; a child sent SIGTERM exits when it does.
StopSignalOk(t) ==
  /\ pc[t] = "stop_signal"
  /\ procs' = [procs EXCEPT ![command] =
                 [@ EXCEPT !.sig = TRUE,
                           !.st = IF goos = "windows" THEN "exited" ELSE @]]
  /\ Goto(t, "stop_wait")
  /\ UNCHANGED <<callsLeft, urlT, commandT, goos, mu, baseURL, command, frame, log, bootVars, selVars>>

\* StopSignalFail that gives the handle up.
StopSignalFailClears(t) ==
  /\ pc[t] = "stop_signal"
  /\ command' = NoCmd
  /\ Return(t, "Stop", Wrap("failed to stop command: ", NewError("os")), NoCmd, baseURL)
  /\ UNCHANGED <<callsLeft, urlT, commandT, goos, baseURL, procs, bootVars, selVars>>

\* The OS refuses the kill or the signal.
StopSignalFail(t) ==
  /\ pc[t] = "stop_signal"
  /\ Return(t, "Stop", Wrap("failed to stop command: ", NewError("os")), command, baseURL)
  /\ UNCHANGED <<callsLeft, urlT, commandT, goos, baseURL, command, procs, bootVars, selVars>>

\* StopWait that does not wait for the child.
StopWaitNoBlock(t) ==
  /\ pc[t] = "stop_wait"
  /\ Goto(t, "stop_clear")
  /\ UNCHANGED <<callsLeft, urlT, commandT, goos, mu, baseURL, command, procs, frame, log, bootVars, selVars>>

\* _ = s.command.Wait(): returns once the child has exited, and reaps it.
StopWait(t) ==
  /\ pc[t] = "stop_wait"
  /\ procs[command].st = "exited"
  /\ procs' = [procs EXCEPT ![command] = NoProc]
  /\ Goto(t, "stop_clear")
  /\ UNCHANGED <<callsLeft, urlT, commandT, goos, mu, baseURL, command, frame, log, bootVars, selVars>>

\* StopClear that leaves the handle.
StopClearKeepsHandle(t) ==
  /\ pc[t] = "stop_clear"
  /\ Goto(t, "stop_clear_url")
  /\ UNCHANGED <<callsLeft, urlT, commandT, goos, mu, baseURL, command, procs, frame, log, bootVars, selVars>>

\* s.command = nil
StopClear(t) ==
  /\ pc[t] = "stop_clear"
  /\ command' = NoCmd
  /\ Goto(t, "stop_clear_url")
  /\ UNCHANGED <<callsLeft, urlT, commandT, goos, mu, baseURL, procs, frame, log, bootVars, selVars>>

\* s.baseURL = ""; return nil
StopClearURL(t) ==
  /\ pc[t] = "stop_clear_url"
  /\ baseURL' = << >>
  /\ Return(t, "Stop", NilErr, command, << >>)
  /\ UNCHANGED <<callsLeft, urlT, commandT, goos, command, procs, bootVars, selVars>>

(***************************************************************************)
(* The child process.                                                      *)
(***************************************************************************)
\* The child exits, by itself or because it was sent SIGTERM.
ChildExit(pid) ==
  /\ procs[pid].st = "running"
  /\ procs' = [procs EXCEPT ![pid].st = "exited"]
  /\ UNCHANGED <<callsLeft, urlT, commandT, goos, mu, baseURL, command, pc, frame, log, bootVars, selVars>>

\* The child, sent SIGTERM, exits.
ChildTerminate(pid) ==
  /\ procs[pid].st = "running"
  /\ procs[pid].sig
  /\ procs' = [procs EXCEPT ![pid].st = "exited"]
  /\ UNCHANGED <<callsLeft, urlT, commandT, goos, mu, baseURL, command, pc, frame, log, bootVars, selVars>>

(***************************************************************************)
(* Service.WaitForBoot and Service.checkStatus.  One call of WaitForBoot   *)
(* is followed from its start to the end of the goroutine it spawns.       *)
(***************************************************************************)
\* const bootWait = 500 * time.Millisecond, in ticks.
bootWait == 1
\* http.Client{Timeout: time.Second} of checkStatus, in ticks.
ClientTimeout == 2

TimeoutError == NewError("failed to start before timeout")

\* The goroutine that starts and stops the Service whose boot is waited for.
Owner == "a"

\* calls is history: the calls left when WaitForBoot was called on a started
\* Service that no Start or Stop was working on, else -1.
NoWfb == [pc |-> "idle", deadline |-> 0, ctx |-> "none", res |-> << >>,
          calls |-> -1]
NoPoll == [pc |-> "none", at |-> 0, up |-> FALSE, saw200 |-> FALSE]

InitBoot ==
  /\ now = 0
  /\ wfb = NoWfb
  /\ poll = NoPoll

\* The context of the call is "live", or done: "expired" (its deadline),
\* "cancelled" (by the caller, through the parent context) or "released" (by
\* the deferred cancel() when WaitForBoot returns).
CtxDone == wfb.ctx \in {"expired", "cancelled", "released"}

\* The deferred cancel() of WaitForBoot.
Cancel(ctx) == IF ctx = "live" THEN "released" ELSE ctx

\* d ticks or more have passed since tick at.
Elapsed(at, d) == now - at >= d \/ now = MaxTime

\* The running drivers that listen where url points.
Listening(url) ==
  {pid \in Pids : /\ procs[pid].st = "running"
                  /\ buildURL(urlT, AddressInfo(procs[pid].port)) = Ok(url)}

\* What client.Do(req) gives for GET url/status when it returns now, having
\* been sent at tick at: an error (the context is done, the client timed out,
\* nobody listens), or the status of the driver, 200 once it has booted.
Response(url, at) ==
  IF CtxDone \/ now - at >= ClientTimeout \/ Listening(url) = {}
  THEN "error"
  ELSE IF \E pid \in Listening(url) : procs[pid].up THEN "200" ELSE "503"

\* ctx, cancel := context.WithTimeout(ctx, timeout); wakeup := make(chan
\* struct{}); go func(ctx) {...}(ctx); the caller reaches its select, the
\* goroutine its first checkStatus.
CallWaitForBoot ==
  /\ wfb.pc = "idle"
  /\ \E timeout \in 0..MaxTimeout :
       /\ wfb' = [pc |-> "select", deadline |-> timeout,
                  ctx |-> IF timeout = 0 THEN "expired" ELSE "live",
                  res |-> << >>,
                  calls |-> IF command # NoCmd /\ mu = Unlocked
                                /\ pc[Owner] \in {"idle", "url_read"}
                            THEN callsLeft ELSE -1]
  /\ poll' = [NoPoll EXCEPT !.pc = "check_lock"]
  /\ now' = 0
  /\ UNCHANGED <<selVars, svcVars, selVars>>

\* The timer of the context fires: ctx.Done() is closed.
DeadlineFire ==
  /\ wfb.ctx = "live"
  /\ now >= wfb.deadline
  /\ wfb' = [wfb EXCEPT !.ctx = "expired"]
  /\ UNCHANGED <<selVars, svcVars, now, poll>>

\* The caller of WaitForBoot cancels the context it passed in.
ParentCancel ==
  /\ wfb.pc = "select"
  /\ wfb.ctx = "live"
  /\ wfb' = [wfb EXCEPT !.ctx = "cancelled"]
  /\ UNCHANGED <<selVars, svcVars, now, poll>>

\* WfbTimeout that joins the goroutine before it returns.
WfbTimeoutJoins ==
  /\ wfb.pc = "select"
  /\ CtxDone
  /\ poll.pc = "done"
  /\ wfb' = [wfb EXCEPT !.pc = "done", !.res = TimeoutError, !.ctx = Cancel(@)]
  /\ UNCHANGED <<selVars, svcVars, now, poll>>

\* select { case <-ctx.Done(): return errors.New("failed to start before timeout")
WfbTimeout ==
  /\ wfb.pc = "select"
  /\ CtxDone
  /\ wfb' = [wfb EXCEPT !.pc = "done", !.res = TimeoutError, !.ctx = Cancel(@)]
  /\ UNCHANGED <<selVars, svcVars, now, poll>>

\* case <-wakeup: return nil }, together with wakeup <- struct{}{} of the
\* goroutine: the channel is unbuffered, the two meet.
WfbWakeup ==
  /\ wfb.pc = "select"
  /\ poll.pc = "send"
  /\ wfb' = [wfb EXCEPT !.pc = "done", !.res = NilErr, !.ctx = Cancel(@)]
  /\ poll' = [poll EXCEPT !.pc = "done"]
  /\ UNCHANGED <<selVars, svcVars, now>>

\* checkStatus: s.mu.Lock()
CheckLock ==
  /\ poll.pc = "check_lock"
  /\ mu = Unlocked
  /\ mu' = Poller
  /\ poll' = [poll EXCEPT !.pc = "check_req", !.at = now]
  /\ UNCHANGED <<callsLeft, urlT, commandT, goos, baseURL, command, procs, pc, frame, log, now, wfb, selVars>>

\* checkStatus without the test of the status code.
checkStatusAnyStatus(resp) == resp # "error"

\* The result of checkStatus for what client.Do gave: false for an error,
\* else resp.StatusCode == 200.
checkStatus(resp) == resp # "error" /\ resp = "200"

\* CheckDone without the deferred s.mu.Unlock().
CheckDoneKeepsLock ==
  /\ poll.pc = "check_req"
  /\ LET resp == Response(baseURL, poll.at)
         up == checkStatus(resp)
     IN poll' = [poll EXCEPT !.pc = IF up THEN "send" ELSE "select",
                             !.up = up, !.at = 0,
                             !.saw200 = @ \/ resp = "200"]
  /\ UNCHANGED <<callsLeft, urlT, commandT, goos, mu, baseURL, command, procs, pc, frame, log, now, wfb, selVars>>

\* checkStatus: the request returns, the deferred s.mu.Unlock() runs; then
\* the test of `for !up`.
CheckDone ==
  /\ poll.pc = "check_req"
  /\ LET resp == Response(baseURL, poll.at)
         up == checkStatus(resp)
     IN poll' = [poll EXCEPT !.pc = IF up THEN "send" ELSE "select",
                             !.up = up, !.at = 0,
                             !.saw200 = @ \/ resp = "200"]
  /\ mu' = Unlocked
  /\ UNCHANGED <<callsLeft, urlT, commandT, goos, baseURL, command, procs, pc, frame, log, now, wfb, selVars>>

\* select { case <-ctx.Done(): return
PollCancelled ==
  /\ poll.pc = "select"
  /\ CtxDone
  /\ poll' = [poll EXCEPT !.pc = "done"]
  /\ UNCHANGED <<selVars, svcVars, now, wfb>>

\* default: time.Sleep(bootWait) begins
PollSleep ==
  /\ poll.pc = "select"
  /\ ~CtxDone
  /\ poll' = [poll EXCEPT !.pc = "sleep", !.at = now]
  /\ UNCHANGED <<selVars, svcVars, now, wfb>>

\* time.Sleep(bootWait) ends; up = s.checkStatus(ctx) is next.
PollWake ==
  /\ poll.pc = "sleep"
  /\ Elapsed(poll.at, bootWait)
  /\ poll' = [poll EXCEPT !.pc = "check_lock", !.at = 0]
  /\ UNCHANGED <<selVars, svcVars, now, wfb>>

\* The driver has booted: from now on it answers GET /status with 200.
DriverUp(pid) ==
  /\ procs[pid].st = "running"
  /\ ~procs[pid].up
  /\ procs' = [procs EXCEPT ![pid].up = TRUE, ![pid].upAt = now]
  /\ UNCHANGED <<callsLeft, urlT, commandT, goos, mu, baseURL, command, pc, frame, log, bootVars, selVars>>

\* The call or its goroutine is under way.
Booting == wfb.pc = "select" \/ poll.pc \notin {"none", "done"}

\* A step of the call or of its goroutine is due now: a timer has run out,
\* or a goroutine can run.  Such a step takes less than a tick.
Urgent ==
  \/ wfb.ctx = "live" /\ now >= wfb.deadline
  \/ wfb.pc = "select" /\ (CtxDone \/ poll.pc = "send")
  \/ poll.pc = "select"
  \/ poll.pc = "sleep" /\ now - poll.at >= bootWait
  \/ poll.pc = "check_lock" /\ mu = Unlocked
  \/ poll.pc = "check_req" /\ now - poll.at >= ClientTimeout

\* Time passes; it is followed while the call or its goroutine runs.
Tick ==
  /\ Booting
  /\ ~Urgent
  /\ now < MaxTime
  /\ now' = now + 1
  /\ UNCHANGED <<selVars, svcVars, wfb, poll>>

(***************************************************************************)
(* Specifications.                                                         *)
(***************************************************************************)
Init ==
  /\ \E cfg \in Configs : urlT = cfg.urlT /\ commandT = cfg.commandT
  /\ callsLeft = MaxCalls
  /\ goos \in GOOS
  /\ InitService
  /\ InitBoot
  /\ InitSel

\* The steps of the callers of Start, Stop and URL, and of the child.
Call(t) ==
  \/ CallURL(t) \/ URLRead(t)
  \/ CallStart(t) \/ StartLock(t) \/ StartCheck(t)
  \/ StartAddrOk(t) \/ StartAddrFail(t) \/ StartURL(t) \/ StartBuild(t)
  \/ StartPipeOk(t) \/ StartPipeFail(t)
  \/ StartRunOk(t) \/ StartRunFail(t) \/ StartSet(t)
  \/ CallStop(t) \/ StopLock(t) \/ StopCheck(t)
  \/ StopSignalOk(t) \/ StopSignalFail(t) \/ StopWait(t)
  \/ StopClear(t) \/ StopClearURL(t)

Child == \E pid \in Pids : ChildExit(pid) \/ ChildTerminate(pid)

\* Two goroutines share the Service; no WaitForBoot.
Next ==
  \/ \E t \in Procs : Call(t)
  \/ Child

Spec == Init /\ [][Next]_vars

PollerStep ==
  \/ CheckLock \/ CheckDone \/ PollCancelled \/ PollSleep \/ PollWake

\* One goroutine starts and stops the Service while a WaitForBoot runs.
BootNext ==
  \/ Call(Owner)
  \/ Child
  \/ \E pid \in Pids : DriverUp(pid)
  \/ CallWaitForBoot
  \/ DeadlineFire
  \/ ParentCancel
  \/ WfbTimeout
  \/ WfbWakeup
  \/ PollerStep
  \/ Tick

\* The Service whose boot is waited for is one that can boot.
BootInit ==
  /\ urlT = <<Lit("http://"), Fld("Address")>>
  /\ commandT = << <<Lit("driver")>>, <<Lit("--port="), Fld("Port")>> >>
  /\ callsLeft = MaxBootCalls
  /\ goos = "linux"
  /\ InitService
  /\ InitBoot
  /\ InitSel

BootSpec == BootInit /\ [][BootNext]_vars

\* A step of a call of the owner that is already under way.
OwnerProgress ==
  \/ URLRead(Owner)
  \/ StartLock(Owner) \/ StartCheck(Owner)
  \/ StartAddrOk(Owner) \/ StartURL(Owner) \/ StartBuild(Owner)
  \/ StartPipeOk(Owner) \/ StartRunOk(Owner) \/ StartSet(Owner)
  \/ StopLock(Owner) \/ StopCheck(Owner)
  \/ StopSignalOk(Owner) \/ StopWait(Owner)
  \/ StopClear(Owner) \/ StopClearURL(Owner)

\* The Go scheduler runs every goroutine that can run, timers fire, the
\* clock advances, and a child that was sent SIGTERM exits.
BootFairness ==
  /\ WF_vars(CheckLock) /\ WF_vars(CheckDone) /\ WF_vars(PollCancelled)
  /\ WF_vars(PollSleep) /\ WF_vars(PollWake)
  /\ WF_vars(WfbTimeout) /\ WF_vars(WfbWakeup)
  /\ WF_vars(DeadlineFire) /\ WF_vars(Tick)
  /\ WF_vars(OwnerProgress)
  /\ WF_vars(\E pid \in Pids : ChildTerminate(pid))

FairBootSpec == BootSpec /\ BootFairness

(***************************************************************************)
(* Properties of the supervisor.                                           *)
(***************************************************************************)
AlreadyRunning == NewError("already running")
AlreadyStopped == NewError("already stopped")
EmptyCommand == Wrap("failed to parse command: ", NewError("empty command"))

Entries == 1..Len(log)
IsStart(i) == log[i].op = "Start"
IsStop(i) == log[i].op = "Stop"
Succeeded(i) == log[i].res = NilErr

\* No Stop returned between the returns i and j.
NoStopBetween(i, j) == \A k \in (i + 1)..(j - 1) : ~IsStop(k)

\* Two Start calls with no Stop between them, i the earlier.
StartPair(i, j) == i < j /\ IsStart(i) /\ IsStart(j) /\ NoStopBetween(i, j)

\* The children that exist: running, or exited and not yet waited for.
Live == {p \in Pids : procs[p].st # "none"}

\* Every child is the one the handle names, or the one a Start is about to
\* record; there is never more than one.
OneChild ==
  /\ Cardinality(Live) <= 1
  /\ \A p \in Live :
       \/ command = p
       \/ \E t \in Procs : pc[t] = "start_set" /\ frame[t].pid = p

\* The later of two Start calls, after a successful earlier one.
LaterStartRejected ==
  \A i, j \in Entries :
    StartPair(i, j) /\ Succeeded(i) =>
      /\ log[j].res = AlreadyRunning
      /\ log[j].cmd = log[i].cmd
      /\ log[j].url = log[i].url

\* C1 as stated: for any two Start calls with no Stop between them at most
\* one spawns a child, and when either of them succeeds the other one returns
\* "already running" and leaves the handle and the base URL alone.
C1_EitherStartRejected ==
  /\ OneChild
  /\ LaterStartRejected
  /\ \A i, j \in Entries :
       StartPair(i, j) /\ Succeeded(j) => log[i].res = AlreadyRunning

\* C1, amended: for any two Start calls with no Stop between them at most one
\* spawns a child; when the earlier succeeds the later returns "already
\* running", spawns nothing and leaves the handle and the base URL as the
\* earlier set them; when the later succeeds the earlier had failed with an
\* error of its own, had spawned nothing and had left the handle nil.
C1_LaterStartRejected ==
  /\ OneChild
  /\ LaterStartRejected
  /\ \A i, j \in Entries :
       StartPair(i, j) /\ Succeeded(j) =>
         /\ log[i].res \notin {NilErr, AlreadyRunning}
         /\ log[i].cmd = NoCmd

\* A Start succeeded and a later Start, with no Stop between, was rejected.
C1_Witness ==
  \E i, j \in Entries :
    /\ StartPair(i, j) /\ Succeeded(i)
    /\ log[j].res = AlreadyRunning
    /\ command = log[i].cmd

\* The Service is Running: the last call that succeeded is a Start.
Running ==
  \E i \in Entries :
    /\ IsStart(i) /\ Succeeded(i)
    /\ \A k \in (i + 1)..Len(log) : ~Succeeded(k)

\* No Start or Stop is between its Lock and its return.
Quiet == mu \notin Procs

HandleIffRunning == Quiet => (command # NoCmd <=> Running)

\* C5 as stated: the handle is non-nil iff the Service is Running; it is nil
\* before the first successful Start, nil after any Start that returned an
\* error, non-nil after a successful Start, nil after a successful Stop.
C5_HandleNilAfterAnyFailedStart ==
  /\ HandleIffRunning
  /\ \A i \in Entries :
       /\ (\A k \in 1..i : ~(IsStart(k) /\ Succeeded(k))) => log[i].cmd = NoCmd
       /\ IsStart(i) /\ ~Succeeded(i) => log[i].cmd = NoCmd
       /\ IsStart(i) /\ Succeeded(i) => log[i].cmd # NoCmd
       /\ IsStop(i) /\ Succeeded(i) => log[i].cmd = NoCmd

\* C5, amended: the handle is non-nil iff the Service is Running; it is nil
\* before the first successful Start, nil after a Start that returned an
\* error other than "already running" (after which it is still non-nil),
\* non-nil after a successful Start, nil after a successful Stop.
C5_HandleIffRunning ==
  /\ HandleIffRunning
  /\ \A i \in Entries :
       /\ (\A k \in 1..i : ~(IsStart(k) /\ Succeeded(k))) => log[i].cmd = NoCmd
       /\ IsStart(i) /\ ~Succeeded(i) =>
            (log[i].cmd = NoCmd <=> log[i].res # AlreadyRunning)
       /\ IsStart(i) /\ Succeeded(i) => log[i].cmd # NoCmd
       /\ IsStop(i) /\ Succeeded(i) => log[i].cmd = NoCmd

\* A failed Start, a successful Start and a successful Stop have returned,
\* and the handle is nil again.
C5_Witness ==
  /\ Quiet /\ command = NoCmd /\ ~Running
  /\ \E i, j, k \in Entries :
       /\ i < j /\ j < k
       /\ IsStart(i) /\ ~Succeeded(i) /\ log[i].res # AlreadyRunning
       /\ IsStart(j) /\ Succeeded(j)
       /\ IsStop(k) /\ Succeeded(k)

\* C6: a successful Stop asks the child to terminate, then blocks until it
\* has exited, and only then clears the state: while it blocks the signal
\* has been sent and the handle and the base URL are still set; it clears
\* only once the child is gone; when it returns nil no child is left, the
\* handle is nil and the base URL is empty; and the Start that follows is
\* not refused with "already running".
C6_StopWaitsThenClears ==
  /\ \A t \in Procs :
       /\ pc[t] = "stop_wait" =>
            command # NoCmd /\ procs[command].sig /\ baseURL # << >>
       /\ pc[t] = "stop_clear" => command # NoCmd /\ procs[command].st = "none"
       /\ pc[t] = "stop_clear_url" => command = NoCmd /\ Live = {}
  /\ \A i \in Entries :
       IsStop(i) /\ Succeeded(i) =>
         /\ log[i].cmd = NoCmd
         /\ log[i].url = << >>
         /\ (i < Len(log) /\ IsStart(i + 1) => log[i + 1].res # AlreadyRunning)
  /\ (Quiet /\ ~Running => Live = {})

\* Start, Stop and Start again have all succeeded.
C6_Witness ==
  \E i \in Entries :
    /\ i > 1 /\ i < Len(log)
    /\ IsStart(i - 1) /\ Succeeded(i - 1)
    /\ IsStop(i) /\ Succeeded(i)
    /\ IsStart(i + 1) /\ Succeeded(i + 1)
    /\ command # NoCmd

\* The handle and the base URL before the call that returned as entry i.
CmdBefore(i) == IF i = 1 THEN NoCmd ELSE log[i - 1].cmd
URLBefore(i) == IF i = 1 THEN << >> ELSE log[i - 1].url

\* Stop on a Service without a handle returns "already stopped", never gets
\* as far as the signal, and leaves the handle and the base URL as they were.
StopWithoutProcess ==
  /\ \A t \in Procs :
       pc[t] \in {"stop_signal", "stop_wait", "stop_clear"} => command # NoCmd
  /\ \A i \in Entries :
       IsStop(i) /\ CmdBefore(i) = NoCmd =>
         /\ log[i].res = AlreadyStopped
         /\ log[i].cmd = NoCmd
         /\ log[i].url = URLBefore(i)

\* The first three calls are Start, Stop, Stop.
StartStopStop == Len(log) >= 3 /\ IsStart(1) /\ IsStop(2) /\ IsStop(3)

\* C7 as stated: Stop on a Service that has no running process returns
\* "already stopped", sends no signal and changes no state; Start, Stop, Stop
\* always ends with "already stopped".
C7_StartStopStopAlways ==
  /\ StopWithoutProcess
  /\ (StartStopStop => log[3].res = AlreadyStopped)

\* C7, amended: Stop on a Service that has no running process returns
\* "already stopped", sends no signal and changes no state; Start, Stop, Stop
\* ends with "already stopped" unless the Start succeeded and the first Stop
\* failed (it could not signal the process, and the handle is still set).
C7_StopTwice ==
  /\ StopWithoutProcess
  /\ (StartStopStop /\ (~Succeeded(1) \/ Succeeded(2)) =>
        log[3].res = AlreadyStopped)

\* Start and Stop succeeded and the second Stop was refused.
C7_Witness ==
  /\ StartStopStop
  /\ Succeeded(1) /\ Succeeded(2)
  /\ log[3].res = AlreadyStopped

\* The command template has a configuration error: it is empty, or one of
\* its arguments names a placeholder addressInfo does not have.
CommandTError ==
  \/ commandT = << >>
  \/ \E i \in 1..Len(commandT) : \E j \in 1..Len(commandT[i]) :
       commandT[i][j].k = "fld" /\ commandT[i][j].v \notin DOMAIN AddressInfo(1)

\* Under such a template no Start succeeds, no child is spawned, the handle
\* stays nil.
NoSpawnOnCommandTError ==
  CommandTError =>
    /\ command = NoCmd
    /\ Live = {}
    /\ \A t \in Procs : pc[t] \notin {"start_pipe", "start_run", "start_set"}
    /\ \A i \in Entries : IsStart(i) => ~Succeeded(i) /\ log[i].cmd = NoCmd

\* C8 as stated: Start with a configuration error in the command template
\* returns an error, spawns nothing and leaves the handle nil; for the empty
\* list the error is "failed to parse command: empty command".
C8_EmptyCommandAlways ==
  /\ NoSpawnOnCommandTError
  /\ (commandT = << >> =>
        \A i \in Entries : IsStart(i) => log[i].res = EmptyCommand)

\* C8, amended: Start with a configuration error in the command template
\* returns an error, spawns nothing and leaves the handle nil; for the empty
\* list the error is "failed to parse command: empty command" unless Start
\* failed before it built the command, to find a free port or to render the
\* URL template, and returned that error.
C8_EmptyCommand ==
  /\ NoSpawnOnCommandTError
  /\ (commandT = << >> =>
        \A i \in Entries :
          IsStart(i) =>
            \/ log[i].res = EmptyCommand
            \/ Head(log[i].res) \in {"failed to locate a free port: ",
                                     "failed to parse URL: "})

\* A Start with the empty command template got as far as buildCommand and
\* returned "failed to parse command: empty command"; the handle is nil.
C8_Witness ==
  /\ commandT = << >>
  /\ command = NoCmd /\ Live = {}
  /\ \E i \in Entries : IsStart(i) /\ log[i].res = EmptyCommand

(***************************************************************************)
(* Properties of WaitForBoot.                                              *)
(***************************************************************************)
\* WaitForBoot has returned for its deadline.
TimedOut == wfb.pc = "done" /\ wfb.res = TimeoutError /\ wfb.ctx = "expired"

\* C2: whenever WaitForBoot returns because its deadline expired, the
\* goroutine it spawned eventually terminates.
C2_PollerTerminates == TimedOut ~> (poll.pc = "done")

\* C3: when WaitForBoot returns, with nil or with the timeout error, the
\* goroutine it spawned has finished.
C3_PollerDoneAtReturn == wfb.pc = "done" => poll.pc = "done"

\* The statements of Start, Stop and URL that read or write s.baseURL or
\* s.command.
FieldAccess ==
  {"start_check", "start_url", "start_set", "stop_check", "stop_signal",
   "stop_wait", "stop_clear", "stop_clear_url", "url_read"}

\* C4: every read and write of the base URL and of the handle, by Start,
\* Stop, the status poll or URL, is made by the holder of the mutex.
C4_FieldsUnderLock ==
  /\ \A t \in Procs : pc[t] \in FieldAccess => mu = t
  /\ poll.pc = "check_req" => mu = Poller

\* The driver at the base URL began to answer 200 at least one poll interval
\* before the deadline, and answers still.
ReadyEarly ==
  \E pid \in Listening(baseURL) :
    procs[pid].up /\ procs[pid].upAt + bootWait <= wfb.deadline

\* WaitForBoot returns nil only after a poll of the call saw 200 and the
\* goroutine gave its signal.
NilOnlyAfter200 ==
  wfb.pc = "done" /\ wfb.res = NilErr => poll.saw200 /\ poll.pc = "done"

\* WaitForBoot was called on a started Service, and no Start or Stop has
\* been called since: only the goroutine of the call takes the mutex.
Undisturbed == wfb.calls = callsLeft

\* C9 as stated: WaitForBoot returns nil only if its goroutine saw 200 and
\* signalled, and it returns nil when the endpoint starts to answer 200 at
\* least one poll interval before the deadline.  (Stated for the calls that
\* nothing disturbs and whose context only the deadline ends.)
C9_ReadyOneIntervalEarly ==
  /\ NilOnlyAfter200
  /\ (TimedOut /\ Undisturbed => ~ReadyEarly)

\* C9, amended: WaitForBoot returns nil only if its goroutine saw 200 and
\* signalled, and it returns nil when the goroutine offers its signal before
\* the context is done: the timeout branch is then closed, and a call that
\* returns with its context not done returns nil.
C9_NilIffSignalled ==
  /\ NilOnlyAfter200
  /\ (wfb.pc = "select" /\ poll.pc = "send" /\ ~CtxDone =>
        ENABLED WfbWakeup /\ ~ENABLED WfbTimeout)
  /\ (wfb.pc = "done" /\ wfb.ctx = "released" => wfb.res = NilErr)

\* WaitForBoot returned nil before its deadline, for a driver that began to
\* answer 200 after the call had begun.
C9_Witness ==
  /\ wfb.pc = "done" /\ wfb.res = NilErr /\ wfb.ctx = "released"
  /\ poll.saw200 /\ poll.pc = "done"
  /\ now < wfb.deadline
  /\ \E pid \in Listening(baseURL) : procs[pid].up /\ procs[pid].upAt > 0

\* C10: if no poll returns 200 WaitForBoot returns the timeout error once
\* the deadline expires: when the deadline has passed the timer can fire,
\* when it has fired the caller can return, whatever the goroutine is doing,
\* and a call in which no poll saw 200 returns the timeout error.
C10_TimeoutNotBlocked ==
  /\ (wfb.pc = "select" /\ ~CtxDone /\ now >= wfb.deadline => ENABLED DeadlineFire)
  /\ (wfb.pc = "select" /\ CtxDone => ENABLED WfbTimeout)
  /\ (wfb.pc = "done" /\ ~poll.saw200 => wfb.res = TimeoutError)

\* WaitForBoot returned the timeout error for its deadline while the
\* goroutine waited for the mutex, held by a Stop that waits for the child.
C10_Witness ==
  /\ TimedOut /\ ~poll.saw200
  /\ poll.pc = "check_lock" /\ mu = Owner /\ pc[Owner] = "stop_wait"

(***************************************************************************)
(* Part 2.  Selector chains: type selectors []selector.  A selectors value *)
(* is a Go slice: a backing array of the heap and a length; its capacity   *)
(* is the length of the array.  Query text is a string, a sequence of      *)
(* atoms as in Part 1.                                                     *)
(***************************************************************************)
\* selectors values derived in one behaviour, the first (nil) one included.
MaxChains == 4
\* Spare capacity append() may give an array beyond what it was asked for:
\* none, or room for one more selector.
Slacks == {0, 1}

cssType == "CSS: %s"
xPathType == "XPath: %s"
\* The selector kinds a chain is built from.
SelectorTypes == {cssType, xPathType}
\* The query texts a chain is built from.
SelectorValues == {<<"a">>, <<"b">>}
\* The arguments of At: negative, zero, inside and beyond a result.
Indexes == {-1, 0, 1, 3}

\* selector{Type: t, Value: v}; the other fields have their zero values.
selector(t, v) ==
  [Type |-> t, Value |-> v, Index |-> 0, Indexed |-> FALSE, Single |-> FALSE]

\* The zero value of selector, which fills the unused part of an array.
ZeroSelector == selector("", << >>)

\* The elements of the slice ss.
Elems(h, ss) == IF ss.arr = 0 THEN << >> ELSE SubSeq(h[ss.arr], 1, ss.len)

\* ss[:idx]: the same array, the length idx.
Prefix(ss, idx) == [ss EXCEPT !.len = idx]

\* k zero values.
Zeros(k) == [i \in 1..k |-> ZeroSelector]

\* append(ss, one) on the slice itself: it writes into the array of ss when
\* the capacity allows, and only else allocates.
clonePlusOneInPlace(h, ss, one, slack) ==
  IF ss.arr # 0 /\ Len(h[ss.arr]) > ss.len
  THEN [heap |-> [h EXCEPT ![ss.arr][ss.len + 1] = one],
        ss |-> [arr |-> ss.arr, len |-> ss.len + 1]]
  ELSE [heap |-> Append(h, Elems(h, ss) \o <<one>>),
        ss |-> [arr |-> Len(h) + 1, len |-> ss.len + 1]]

\* ret := make(selectors, len(ss), len(ss)+1); copy(ret, ss); ret =
\* append(ret, one): a new array of capacity len(ss)+1.  In the other
\* version, append(append(selectors(nil), s...), selector): a new array
\* too, of the capacity append chooses.
clonePlusOne(h, ss, one, slack) ==
  LET spare == IF impl = "clonePlusOne" THEN 0 ELSE slack IN
  [heap |-> Append(h, Elems(h, ss) \o <<one>> \o Zeros(spare)),
   ss |-> [arr |-> Len(h) + 1, len |-> ss.len + 1]]

canMergeType(h, ss, selectorType) ==
  IF ss.len = 0 THEN FALSE
  ELSE LET last == Elems(h, ss)[ss.len]
           bothCSS == selectorType = cssType /\ last.Type = cssType
       IN bothCSS /\ ~last.Indexed /\ ~last.Single

\* canMergeType that looks at the kinds only.
selectorsAppendAlwaysMerge(h, ss, selectorType, value, slack) ==
  IF ss.len = 0 \/ selectorType # cssType \/ Elems(h, ss)[ss.len].Type # cssType
  THEN clonePlusOne(h, ss, selector(selectorType, value), slack)
  ELSE LET idx == ss.len - 1
           sl == selector(selectorType, Elems(h, ss)[idx + 1].Value \o <<" ">> \o value)
       IN clonePlusOne(h, Prefix(ss, idx), sl, slack)

\* selectors.Append
selectorsAppend(h, ss, selectorType, value, slack) ==
  IF ~canMergeType(h, ss, selectorType)
  THEN clonePlusOne(h, ss, selector(selectorType, value), slack)
  ELSE LET idx == ss.len - 1
           sl == selector(selectorType, Elems(h, ss)[idx + 1].Value \o <<" ">> \o value)
       IN clonePlusOne(h, Prefix(ss, idx), sl, slack)

\* selectors.Single
selectorsSingle(h, ss, slack) ==
  LET idx == ss.len - 1 IN
  IF idx < 0 THEN [heap |-> h, ss |-> NilSelectors]
  ELSE LET sl == [Elems(h, ss)[idx + 1] EXCEPT !.Single = TRUE, !.Indexed = FALSE]
       IN clonePlusOne(h, Prefix(ss, idx), sl, slack)

\* selectors.At that leaves Single as it finds it.
selectorsAtKeepsSingle(h, ss, index, slack) ==
  LET idx == ss.len - 1 IN
  IF idx < 0 THEN [heap |-> h, ss |-> NilSelectors]
  ELSE LET sl == [Elems(h, ss)[idx + 1] EXCEPT !.Indexed = TRUE, !.Index = index]
       IN clonePlusOne(h, Prefix(ss, idx), sl, slack)

\* selectors.At that builds a selector for an empty chain too.
selectorsAtOnEmpty(h, ss, index, slack) ==
  LET idx == ss.len - 1
      old == IF idx < 0 THEN ZeroSelector ELSE Elems(h, ss)[idx + 1]
      sl == [old EXCEPT !.Single = FALSE, !.Indexed = TRUE, !.Index = index]
  IN clonePlusOne(h, Prefix(ss, IF idx < 0 THEN 0 ELSE idx), sl, slack)

\* selectors.At
selectorsAt(h, ss, index, slack) ==
  LET idx == ss.len - 1 IN
  IF idx < 0 THEN [heap |-> h, ss |-> NilSelectors]
  ELSE LET sl == [Elems(h, ss)[idx + 1] EXCEPT !.Single = FALSE, !.Indexed = TRUE,
                                               !.Index = index]
       IN clonePlusOne(h, Prefix(ss, idx), sl, slack)

\* The call returned r: the heap is as the call left it, and the value it
\* returned joins the chains, with what it holds now and how it was made.
Derive(r, origin) ==
  /\ heap' = r.heap
  /\ chains' = Append(chains, [ss |-> r.ss, snap |-> Elems(r.heap, r.ss),
                               origin |-> origin])

\* c.Append(selectorType, value), for a chain c made earlier.
DoAppend ==
  /\ Len(chains) < MaxChains
  /\ \E c \in 1..Len(chains), t \in SelectorTypes, v \in SelectorValues,
        slack \in Slacks :
       Derive(selectorsAppend(heap, chains[c].ss, t, v, slack),
              [op |-> "Append", from |-> c, Type |-> t, Value |-> v, Index |-> 0])
  /\ UNCHANGED <<impl, doc, rs, sess, svcVars, bootVars>>

\* c.Single()
DoSingle ==
  /\ Len(chains) < MaxChains
  /\ \E c \in 1..Len(chains), slack \in Slacks :
       Derive(selectorsSingle(heap, chains[c].ss, slack),
              [NoOrigin EXCEPT !.op = "Single", !.from = c])
  /\ UNCHANGED <<impl, doc, rs, sess, svcVars, bootVars>>

\* c.At(index)
DoAt ==
  /\ Len(chains) < MaxChains
  /\ \E c \in 1..Len(chains), i \in Indexes, slack \in Slacks :
       Derive(selectorsAt(heap, chains[c].ss, i, slack),
              [NoOrigin EXCEPT !.op = "At", !.from = c, !.Index = i])
  /\ UNCHANGED <<impl, doc, rs, sess, svcVars, bootVars>>

\* A Service that is not used: the chains need none.
NoService ==
  /\ urlT = <<Lit("localhost")>>
  /\ commandT = << >>
  /\ callsLeft = 0
  /\ goos = "linux"
  /\ InitService
  /\ InitBoot

\* A new page (its selectors are nil), under either version of selectors.go.
AlgebraInit ==
  /\ NoService
  /\ impl \in {"clonePlusOne", "append"}
  /\ heap = << >>
  /\ chains = << [ss |-> NilSelectors, snap |-> << >>, origin |-> NoOrigin] >>
  /\ doc = NoDoc
  /\ rs = NoResolution
  /\ sess = NoSession

AlgebraNext == DoAppend \/ DoSingle \/ DoAt

\* Chains are derived from chains, in any order and from any earlier one.
AlgebraSpec == AlgebraInit /\ [][AlgebraNext]_vars

(***************************************************************************)
(* Properties of the selector chains.                                      *)
(***************************************************************************)
Made == 1..Len(chains)
\* The chain k was derived from, as it was when it was made.
Recv(k) == chains[chains[k].origin.from].snap
\* The chain k, as it was when it was made.
Out(k) == chains[k].snap
MadeBy(k, op) == chains[k].origin.op = op
Last(ss) == ss[Len(ss)]
Front(ss) == SubSeq(ss, 1, Len(ss) - 1)

\* The Append that made chain k met a CSS tail, neither single nor indexed,
\* with a CSS selector.
Mergeable(k) ==
  /\ Len(Recv(k)) > 0
  /\ chains[k].origin.Type = cssType
  /\ Last(Recv(k)).Type = cssType
  /\ ~Last(Recv(k)).Single
  /\ ~Last(Recv(k)).Indexed

\* C12: Append(kind, value) merges iff the chain is non-empty, both kinds are
\* CSS and the last selector is neither single nor indexed; on a merge the
\* result is as long as the receiver and its last value is the old last
\* value, one space, the new value; else the result is one longer, ends with
\* a new plain selector of the given kind and value, and keeps all earlier
\* selectors.
C12_AppendMerges ==
  \A k \in Made :
    MadeBy(k, "Append") =>
      IF Mergeable(k)
      THEN /\ Len(Out(k)) = Len(Recv(k))
           /\ Last(Out(k)) = selector(cssType, Last(Recv(k)).Value \o <<" ">>
                                               \o chains[k].origin.Value)
           /\ Front(Out(k)) = Front(Recv(k))
      ELSE /\ Len(Out(k)) = Len(Recv(k)) + 1
           /\ Last(Out(k)) = selector(chains[k].origin.Type, chains[k].origin.Value)
           /\ Front(Out(k)) = Recv(k)

\* From one chain with a plain CSS tail, an Append of a CSS selector has
\* merged and an Append of an XPath selector has grown the chain.
C12_Witness ==
  \E c, j, k \in Made :
    /\ chains[j].origin.from = c /\ chains[k].origin.from = c
    /\ MadeBy(j, "Append") /\ Mergeable(j) /\ Len(Out(j)) = Len(Out(c))
    /\ MadeBy(k, "Append") /\ chains[k].origin.Type = xPathType
    /\ Len(Out(k)) = Len(Out(c)) + 1

\* C13: Append, Single and At never modify their receiver nor any chain
\* derived earlier: every chain made holds, whatever was derived from it or
\* from its forks since, exactly what it held when it was made.
C13_ChainsKeepContents ==
  \A k \in Made : Elems(heap, chains[k].ss) = chains[k].snap

\* Two forks were derived, by Single and by At, from a chain that was itself
\* derived, and share no array with it.
C13_Witness ==
  \E c, j, k \in Made :
    /\ MadeBy(c, "Append")
    /\ chains[j].origin.from = c /\ MadeBy(j, "Single")
    /\ chains[k].origin.from = c /\ MadeBy(k, "At")
    /\ Cardinality({chains[c].ss.arr, chains[j].ss.arr, chains[k].ss.arr}) = 3
    /\ ~Last(Out(c)).Single /\ ~Last(Out(c)).Indexed

\* C14: in every chain made by Append, Single and At no selector is both
\* single and indexed; after At(i), for any i, the tail has Indexed true,
\* Single false and Index i; after Single() it has Single true and Indexed
\* false; the selectors before the tail are those of the receiver.
C14_SingleXorIndexed ==
  \A k \in Made :
    /\ \A i \in 1..Len(Out(k)) : ~(Out(k)[i].Single /\ Out(k)[i].Indexed)
    /\ MadeBy(k, "At") /\ Len(Recv(k)) > 0 =>
         /\ Last(Out(k)) = [Last(Recv(k)) EXCEPT !.Indexed = TRUE, !.Single = FALSE,
                                                 !.Index = chains[k].origin.Index]
         /\ Front(Out(k)) = Front(Recv(k))
         /\ Len(Out(k)) = Len(Recv(k))
    /\ MadeBy(k, "Single") /\ Len(Recv(k)) > 0 =>
         /\ Last(Out(k)).Single /\ ~Last(Out(k)).Indexed
         /\ Last(Out(k)).Type = Last(Recv(k)).Type
         /\ Last(Out(k)).Value = Last(Recv(k)).Value
         /\ Front(Out(k)) = Front(Recv(k))
         /\ Len(Out(k)) = Len(Recv(k))

\* At(-1) was applied to a chain whose tail was single: the tail of the
\* result is indexed, with index -1, and no longer single.
C14_Witness ==
  \E k \in Made :
    /\ MadeBy(k, "At") /\ chains[k].origin.Index = -1
    /\ Len(Recv(k)) > 0 /\ Last(Recv(k)).Single
    /\ Last(Out(k)).Indexed /\ ~Last(Out(k)).Single /\ Last(Out(k)).Index = -1

\* C20: Single() and At(i) on an empty chain return a nil chain for every i,
\* and create no selector.
C20_EmptyStaysNil ==
  \A k \in Made :
    (MadeBy(k, "Single") \/ MadeBy(k, "At")) /\ Len(Recv(k)) = 0 =>
      chains[k].ss = NilSelectors /\ Out(k) = << >>

\* At(3) and Single() were applied to the empty chain.
C20_Witness ==
  /\ \E k \in Made :
       MadeBy(k, "At") /\ Len(Recv(k)) = 0 /\ chains[k].origin.Index = 3
  /\ \E k \in Made : MadeBy(k, "Single") /\ Len(Recv(k)) = 0

(***************************************************************************)
(* Part 3: resolving a chain against the document (selectable.go).  The    *)
(* document is a forest of elements numbered in document order; the        *)
(* session answers a find with the matching elements in that order.  A     *)
(* resolution advances one remote request at a time, and a request may     *)
(* fail in the transport.                                                  *)
(***************************************************************************)

MaxSteps == 2      \* Append calls that build the chain to resolve

\* The session itself, as the client of a find: the whole document.
Root == 0

\* The documents: two a's with one b each and a b outside them; one a with
\* two b's; a single a.
Docs ==
  { [tag |-> <<"a", "b", "a", "b", "b">>, parent |-> <<0, 1, 0, 3, 0>>],
    [tag |-> <<"a", "b", "b">>, parent |-> <<0, 1, 1>>],
    [tag |-> <<"a">>, parent |-> <<0>>] }

\* What the chains to resolve look for.
Finders ==
  { [Type |-> cssType, Value |-> <<"a">>], [Type |-> cssType, Value |-> <<"b">>],
    [Type |-> xPathType, Value |-> <<"b">>] }

RECURSIVE Ancestors(_)
Ancestors(e) ==
  IF doc.parent[e] = Root THEN {}
  ELSE {doc.parent[e]} \cup Ancestors(doc.parent[e])

\* The element e answers the value v: a tag, or tags separated by blanks,
\* each to be found under the one before.
RECURSIVE Answers(_, _)
Answers(e, v) ==
  /\ doc.tag[e] = v[Len(v)]
  /\ Len(v) = 1 \/ \E x \in Ancestors(e) : Answers(x, SubSeq(v, 1, Len(v) - 2))

\* What the browser finds for a request sent to client: to the session,
\* the matches of the whole document; to an element, those below it.
RemoteFind(client, sl) ==
  LET Hit(e) == Answers(e, sl.Value) /\ (client = Root \/ client \in Ancestors(e))
  IN SelectSeq([e \in 1..Len(doc.tag) |-> e], Hit)

\* Element.Session: the session the element was found through.
elementSession(e) == Root

\* The errors of a resolution.
ErrTransport == <<"request failed">>
ErrNoSuchElement == <<"no such element">>

\* retrieveElements that takes the first of several matches as the single one.
retrieveElementsFirstOfMany(client, sl, fail) ==
  LET found == RemoteFind(client, sl)
      Got(es, call) == [elements |-> es, err |-> NilErr, call |-> call]
      Failed(e, call) == [elements |-> << >>, err |-> e, call |-> call]
  IN
  IF sl.Single THEN
    IF fail THEN Failed(ErrTransport, "elements")
    ELSE IF Len(found) = 0 THEN Failed(NewError("element not found"), "elements")
    ELSE Got(<<found[1]>>, "elements")
  ELSE IF sl.Indexed /\ sl.Index > 0 THEN
    IF fail THEN Failed(ErrTransport, "elements")
    ELSE IF sl.Index >= Len(found)
      THEN Failed(NewError("element index out of range"), "elements")
    ELSE Got(<<found[sl.Index + 1]>>, "elements")
  ELSE IF sl.Indexed /\ sl.Index = 0 THEN
    IF fail THEN Failed(ErrTransport, "element")
    ELSE IF Len(found) = 0 THEN Failed(ErrNoSuchElement, "element")
    ELSE Got(<<found[1]>>, "element")
  ELSE
    IF fail THEN Failed(ErrTransport, "elements")
    ELSE Got(found, "elements")

\* retrieveElements: the elements, or the error, and the request sent.
retrieveElements(client, sl, fail) ==
  LET found == RemoteFind(client, sl)
      Got(es, call) == [elements |-> es, err |-> NilErr, call |-> call]
      Failed(e, call) == [elements |-> << >>, err |-> e, call |-> call]
  IN
  IF sl.Single THEN
    IF fail THEN Failed(ErrTransport, "elements")
    ELSE IF Len(found) = 0 THEN Failed(NewError("element not found"), "elements")
    ELSE IF Len(found) > 1 THEN Failed(NewError("ambiguous find"), "elements")
    ELSE Got(<<found[1]>>, "elements")
  ELSE IF sl.Indexed /\ sl.Index > 0 THEN
    IF fail THEN Failed(ErrTransport, "elements")
    ELSE IF sl.Index >= Len(found)
      THEN Failed(NewError("element index out of range"), "elements")
    ELSE Got(<<found[sl.Index + 1]>>, "elements")
  ELSE IF sl.Indexed /\ sl.Index = 0 THEN
    IF fail THEN Failed(ErrTransport, "element")
    ELSE IF Len(found) = 0 THEN Failed(ErrNoSuchElement, "element")
    ELSE Got(<<found[1]>>, "element")
  ELSE
    IF fail THEN Failed(ErrTransport, "elements")
    ELSE Got(found, "elements")

getElementsAtLeastOne(raw) ==
  IF raw.err # NilErr THEN [elements |-> << >>, err |-> raw.err]
  ELSE IF Len(raw.elements) = 0
    THEN [elements |-> << >>, err |-> NewError("no elements found")]
  ELSE raw

\* getElementExactlyOne that takes the first of several elements.
getElementExactlyOneTakesFirst(raw) ==
  LET least == getElementsAtLeastOne(raw) IN
  IF least.err # NilErr THEN least
  ELSE [elements |-> <<least.elements[1]>>, err |-> NilErr]

getElementExactlyOne(raw) ==
  LET least == getElementsAtLeastOne(raw) IN
  IF least.err # NilErr THEN least
  ELSE IF Len(least.elements) > 1
    THEN [elements |-> << >>,
          err |-> <<"method does not support multiple elements (",
                    ToString(Len(least.elements)), ")">>]
  ELSE [elements |-> <<least.elements[1]>>, err |-> NilErr]

\* The public operations, Visible for those made with hasState.
PublicOps == {"Elements", "Count", "Visible", "EqualsElement", "MouseToElement"}

\* The method through which an operation resolves its chain.
EntryOf(op) ==
  CASE op \in {"Elements", "Count"} -> "getElements"
    [] op = "Visible" -> "getElementsAtLeastOne"
    [] OTHER -> "getElementExactlyOne"

\* selector.String: the type with the value in it, and the suffix.
selectorString(sl) ==
  <<sl.Type>> \o sl.Value \o
    (IF sl.Single THEN <<" [single]">>
     ELSE IF sl.Indexed THEN <<" [", ToString(sl.Index), "]">> ELSE << >>)

\* selectors.String: the selectors joined with " | ".
RECURSIVE selectorsString(_)
selectorsString(c) ==
  IF c = << >> THEN << >>
  ELSE IF Len(c) = 1 THEN selectorString(c[1])
  ELSE selectorString(c[1]) \o <<" | ">> \o selectorsString(Tail(c))

\* Selection.String
SelectionString(c) == <<"selection '">> \o selectorsString(c) \o <<"'">>

\* The error an operation returns when resolving its chain gave err.
PublicError(op, c, err) ==
  IF err = NilErr THEN NilErr
  ELSE CASE op = "Elements" -> err
         [] op \in {"Count", "Visible"} ->
              <<"failed to select elements from ">> \o SelectionString(c) \o <<": ">> \o err
         [] OTHER ->
              <<"failed to select element from ">> \o SelectionString(c) \o <<": ">> \o err

\* getElements has raw to return: the entry point makes its own result of
\* it, and the operation its error.
Returned(r, raw) ==
  LET out == CASE r.entry = "getElements" -> raw
               [] r.entry = "getElementsAtLeastOne" -> getElementsAtLeastOne(raw)
               [] OTHER -> getElementExactlyOne(raw)
  IN [r EXCEPT !.pc = "done", !.raw = raw, !.out = out,
               !.res = PublicError(r.op, r.chain, out.err)]

\* getElements that goes on with the next current element after an error.
AfterFindSkipsFailure(r, res) ==
  LET acc == r.acc \o res.elements IN
  IF r.i < Len(r.cur) THEN [r EXCEPT !.acc = acc, !.i = r.i + 1]
  ELSE IF r.step = Len(r.chain) \/ acc = << >>
    THEN Returned([r EXCEPT !.acc = acc], [elements |-> acc, err |-> res.err])
  ELSE [r EXCEPT !.step = r.step + 1, !.cur = acc, !.acc = << >>, !.i = 1]

\* getElements after the request for the i-th current element returned res.
AfterFind(r, res) ==
  LET acc == r.acc \o res.elements IN
  IF res.err # NilErr THEN Returned(r, [elements |-> << >>, err |-> res.err])
  ELSE IF r.i < Len(r.cur) THEN [r EXCEPT !.acc = acc, !.i = r.i + 1]
  ELSE IF r.step = Len(r.chain) \/ acc = << >>
    THEN Returned([r EXCEPT !.acc = acc], [elements |-> acc, err |-> NilErr])
  ELSE [r EXCEPT !.step = r.step + 1, !.cur = acc, !.acc = << >>, !.i = 1]

\* A selectors value that holds the selectors c in an array of its own.
Held(c) ==
  IF c = << >> THEN [heap |-> << >>, ss |-> NilSelectors]
  ELSE [heap |-> <<c>>, ss |-> [arr |-> 1, len |-> Len(c)]]

AppendTo(c, t, v) ==
  LET r == selectorsAppend(Held(c).heap, Held(c).ss, t, v, 0) IN Elems(r.heap, r.ss)
SingleOf(c) ==
  LET r == selectorsSingle(Held(c).heap, Held(c).ss, 0) IN Elems(r.heap, r.ss)
AtOf(c, index) ==
  LET r == selectorsAt(Held(c).heap, Held(c).ss, index, 0) IN Elems(r.heap, r.ss)

\* The ways to lengthen a chain: All*, Find*, and All* followed by At(i)
\* (First* is At(0)).
Lengthen(c) ==
  LET plain == {AppendTo(c, f.Type, f.Value) : f \in Finders}
  IN plain \cup {SingleOf(p) : p \in plain}
           \cup {AtOf(p, i) : p \in plain, i \in Indexes}

RECURSIVE ChainsOf(_)
ChainsOf(n) ==
  IF n = 0 THEN {<< >>}
  ELSE LET shorter == ChainsOf(n - 1)
       IN shorter \cup UNION {Lengthen(c) : c \in shorter}

\* getElements that sends nothing for an empty chain and returns no element.
StartEmptyIsNone(chain, op) ==
  LET r == [rs EXCEPT !.op = op, !.entry = EntryOf(op), !.chain = chain,
                      !.reqs = << >>, !.res = << >>,
                      !.acc = << >>, !.raw = NoResult, !.out = NoResult]
  IN IF Len(chain) = 0
     THEN Returned([r EXCEPT !.step = 0, !.cur = << >>, !.i = 0], NoResult)
     ELSE [r EXCEPT !.pc = "find", !.step = 1, !.cur = <<Root>>, !.i = 1]

\* The operation op starts getElements on chain: the empty chain returns at
\* once, any other has its first selector sent to the session.
Start(chain, op) ==
  LET r == [rs EXCEPT !.op = op, !.entry = EntryOf(op), !.chain = chain,
                      !.reqs = << >>, !.res = << >>,
                      !.acc = << >>, !.raw = NoResult, !.out = NoResult,
                      !.prev = IF rs.pc = "done"
                               THEN [chain |-> rs.chain, out |-> rs.out,
                                     raw |-> rs.raw, reqs |-> rs.reqs,
                                     valid |-> TRUE]
                               ELSE rs.prev]
  IN IF Len(chain) = 0
     THEN Returned([r EXCEPT !.step = 0, !.cur = << >>, !.i = 0],
                   [elements |-> << >>, err |-> NewError("empty selection")])
     ELSE [r EXCEPT !.pc = "find", !.step = 1, !.cur = <<Root>>, !.i = 1]

\* A Selection is made and resolved.
ResolveCall ==
  /\ rs.pc = "idle"
  /\ \E c \in ChainsOf(MaxSteps), op \in PublicOps : rs' = Start(c, op)
  /\ UNCHANGED <<impl, heap, chains, doc, sess, svcVars, bootVars>>

\* The Selection resolved last was made by All*: it is narrowed with At(i),
\* and resolved again.
ResolveAgain ==
  /\ rs.pc = "done"
  /\ ~rs.prev.valid
  /\ Len(rs.chain) > 0 /\ ~Last(rs.chain).Single /\ ~Last(rs.chain).Indexed
  /\ \E i \in Indexes : rs' = Start(AtOf(rs.chain, i), rs.op)
  /\ UNCHANGED <<impl, heap, chains, doc, sess, svcVars, bootVars>>

\* The request for the current element is sent and answered.
Find ==
  /\ rs.pc = "find"
  /\ \E fail \in BOOLEAN :
       LET e == rs.cur[rs.i]
           client == IF rs.step = 1 THEN Root ELSE elementSession(e)
           res == retrieveElements(client, rs.chain[rs.step], fail)
           req == [step |-> rs.step, on |-> e, client |-> client,
                   call |-> res.call, err |-> res.err, n |-> Len(res.elements)]
       IN rs' = AfterFind([rs EXCEPT !.reqs = Append(rs.reqs, req)], res)
  /\ UNCHANGED <<impl, heap, chains, doc, sess, svcVars, bootVars>>

ResolveInit ==
  /\ NoService
  /\ impl = "clonePlusOne"
  /\ heap = << >>
  /\ chains = << [ss |-> NilSelectors, snap |-> << >>, origin |-> NoOrigin] >>
  /\ doc \in Docs
  /\ rs = NoResolution
  /\ sess = NoSession

ResolveNext == ResolveCall \/ ResolveAgain \/ Find

ResolveSpec == ResolveInit /\ [][ResolveNext]_vars

(***************************************************************************)
(* Properties of the resolution.                                           *)
(***************************************************************************)

Done == rs.pc = "done"
Plain(sl) == ~sl.Single /\ ~sl.Indexed
Reqs == 1..Len(rs.reqs)

\* The elements found below each element of cur, in the order of cur.
RECURSIVE Children(_, _)
Children(cur, sl) ==
  IF cur = << >> THEN << >>
  ELSE RemoteFind(Head(cur), sl) \o Children(Tail(cur), sl)

\* C11: after the first step every find is sent to the current element it
\* is made for, and a chain of two unconstrained selectors resolves to the
\* matches of the second below the matches of the first, in their order.
C11_FanOutScoped ==
  /\ \A q \in Reqs : rs.reqs[q].step > 1 => rs.reqs[q].client = rs.reqs[q].on
  /\ Done /\ rs.raw.err = NilErr /\ Len(rs.chain) = 2
       /\ Plain(rs.chain[1]) /\ Plain(rs.chain[2])
     => rs.raw.elements = Children(RemoteFind(Root, rs.chain[1]), rs.chain[2])

\* The requests of step s.
ReqsOf(s) == {q \in Reqs : rs.reqs[q].step = s}

Narrowed ==
  /\ Done /\ rs.prev.valid /\ rs.prev.raw.err = NilErr
  /\ rs.prev.raw.elements # << >>
  /\ \A q \in Reqs : rs.reqs[q].err # ErrTransport

\* C16: when the unconstrained chain resolved to e0..en-1, n > 0, the chain with
\* At(0) resolves to e0 alone and fetches no list for its last selector,
\* with At(k), 0 < k < n, it resolves to ek alone, and with At(k), k >= n,
\* it fails "element index out of range".
C16_IndexIntoResolution ==
  Narrowed =>
    LET k == Last(rs.chain).Index
        e == rs.prev.raw.elements
        n == Len(e)
    IN /\ k = 0 =>
            /\ rs.raw = [elements |-> <<e[1]>>, err |-> NilErr]
            /\ \A q \in ReqsOf(Len(rs.chain)) : rs.reqs[q].call = "element"
       /\ 0 < k /\ k < n => rs.raw = [elements |-> <<e[k + 1]>>, err |-> NilErr]
       /\ 0 < k /\ k >= n => rs.raw.err = NewError("element index out of range")

\* C17: a request that fails, in the transport or by its cardinality, is
\* the last request of its resolution, and the resolution returns its error
\* and no element to the caller.
C17_FailFast ==
  /\ \A q \in Reqs : rs.reqs[q].err # NilErr =>
       /\ q = Len(rs.reqs)
       /\ Done
       /\ rs.out = [elements |-> << >>, err |-> rs.reqs[q].err]
  /\ Done /\ rs.out.err # NilErr => rs.out.elements = << >>

\* The find made for the first of two current elements failed: none was
\* made for the second.
C17_Witness ==
  /\ Done /\ rs.step = 2 /\ Len(rs.cur) = 2 /\ rs.i = 1
  /\ Len(rs.reqs) = 2 /\ rs.reqs[2].err # NilErr
  /\ rs.out = [elements |-> << >>, err |-> rs.reqs[2].err]

\* C18: getElementExactlyOne returns an element exactly when the chain
\* resolved without error to one element, and then that element; it passes
\* on the error of the resolution, fails "no elements found" for none and
\* "method does not support multiple elements (N)" for N > 1, and never
\* returns an element together with an error.
C18_ExactlyOne ==
  Done /\ rs.entry = "getElementExactlyOne" =>
    LET n == Len(rs.raw.elements) IN
    /\ rs.out.err = NilErr <=> rs.raw.err = NilErr /\ n = 1
    /\ rs.out.err = NilErr => rs.out.elements = rs.raw.elements
    /\ rs.raw.err # NilErr => rs.out.err = rs.raw.err
    /\ rs.raw.err = NilErr /\ n = 0 => rs.out.err = NewError("no elements found")
    /\ rs.raw.err = NilErr /\ n > 1 =>
         rs.out.err = <<"method does not support multiple elements (", ToString(n), ")">>
    /\ rs.out.err = NilErr \/ rs.out.elements = << >>

\* getElementExactlyOne refused a resolution of three elements.
C18_Witness ==
  /\ Done /\ rs.entry = "getElementExactlyOne"
  /\ rs.raw.err = NilErr /\ Len(rs.raw.elements) = 3
  /\ rs.out = [elements |-> << >>,
               err |-> <<"method does not support multiple elements (", "3", ")">>]

\* C19: resolving an empty chain fails "empty selection" without a request,
\* through every entry point.
C19_EmptySelection ==
  Done /\ rs.chain = << >> =>
    /\ rs.reqs = << >>
    /\ rs.raw = [elements |-> << >>, err |-> NewError("empty selection")]
    /\ rs.out = [elements |-> << >>, err |-> NewError("empty selection")]

\* An empty chain was resolved through getElementsAtLeastOne.
C19_Witness ==
  /\ Done /\ rs.chain = << >> /\ rs.entry = "getElementsAtLeastOne"
  /\ rs.out.err = NewError("empty selection")

\* C29: a find for a selector marked At(i) that succeeds gives at most one
\* element for its current element, whatever the sign of i.
C29_IndexedAtMostOne ==
  \A q \in Reqs :
    rs.chain[rs.reqs[q].step].Indexed /\ rs.reqs[q].err = NilErr
      => rs.reqs[q].n <= 1

(***************************************************************************)
(* Further properties of the supervisor.                                   *)
(***************************************************************************)

\* C30: the goroutine of WaitForBoot holds the lock only while its status
\* request is under way, and a Start or Stop of the owner that has begun
\* returns, whatever the goroutine does meanwhile.
C30_OwnerNotBlocked ==
  /\ [](mu = Poller => poll.pc = "check_req")
  /\ (pc[Owner] # "idle") ~> (pc[Owner] = "idle")

\* The owner waits in Stop for the lock that the goroutine holds.
C30_Witness == pc[Owner] = "stop_lock" /\ mu = Poller /\ poll.pc = "check_req"

StopFailed(i) ==
  IsStop(i) /\ log[i].res = Wrap("failed to stop command: ", NewError("os"))

\* C28: a Stop whose signal or kill fails returns "failed to stop command:
\* ..." and leaves the handle, the base URL and the child as they were; the
\* Start that comes next is rejected with "already running", and the Stop
\* that comes next finds a process to stop.
C28_FailedStopKeepsRunning ==
  /\ \A i \in Entries : StopFailed(i) =>
       /\ log[i].cmd # NoCmd /\ log[i].cmd = CmdBefore(i)
       /\ log[i].url = URLBefore(i)
       /\ i < Len(log) /\ IsStart(i + 1) => log[i + 1].res = AlreadyRunning
       /\ i < Len(log) /\ IsStop(i + 1) => log[i + 1].res # AlreadyStopped
  /\ Len(log) > 0 /\ StopFailed(Len(log)) /\ mu = Unlocked =>
       /\ command = log[Len(log)].cmd /\ baseURL = log[Len(log)].url
       /\ procs[command].st # "none" /\ ~procs[command].sig

\* A Stop failed to signal, the Start after it was rejected.
C28_Witness ==
  /\ Len(log) = 3 /\ IsStart(1) /\ Succeeded(1) /\ StopFailed(2)
  /\ IsStart(3) /\ log[3].res = AlreadyRunning

\* C27: while nobody works on the Service, the base URL is set only if a
\* handle is, and a Start that fails leaves the base URL as it found it.
C27_URLOnlyWithHandle ==
  /\ mu = Unlocked /\ baseURL # << >> => command # NoCmd
  /\ \A i \in Entries :
       IsStart(i) /\ ~Succeeded(i) => log[i].url = URLBefore(i)

(***************************************************************************)
(* WebDriver.Start: Service.Start, then Service.WaitForBoot, then, if the  *)
(* boot failed, Service.Stop, whose error is dropped.  The position of the *)
(* call is read from the history of the Service and from the WaitForBoot.  *)
(***************************************************************************)

\* w.service.Start(ctx, w.Debug)
WDServiceStart ==
  /\ log = << >> /\ wfb.pc = "idle"
  /\ CallStart(Owner)

\* The call of the owner that is under way takes a step.
WDStep == pc[Owner] # "idle" /\ Call(Owner)

\* w.service.WaitForBoot(ctx, w.Timeout), once Start has returned nil.
WDWaitForBoot ==
  /\ pc[Owner] = "idle" /\ Len(log) = 1 /\ Succeeded(1)
  /\ CallWaitForBoot

\* _ = w.service.Stop(), once WaitForBoot has returned an error.
WDStop ==
  /\ wfb.pc = "done" /\ wfb.res # NilErr /\ Len(log) = 1
  /\ CallStop(Owner)

\* WebDriver.Start has returned an error: that of Service.Start, or that
\* of WaitForBoot after Stop has returned.
WDFailed ==
  /\ pc[Owner] = "idle"
  /\ \/ Len(log) = 1 /\ ~Succeeded(1)
     \/ wfb.pc = "done" /\ wfb.res # NilErr /\ Len(log) = 2

\* WebDriver.Start is called again after it has failed.
WDStartAgain == WDFailed /\ CallStart(Owner)

DriverInit ==
  /\ urlT = <<Lit("http://"), Fld("Address")>>
  /\ commandT = << <<Lit("driver")>>, <<Lit("--port="), Fld("Port")>> >>
  /\ callsLeft = MaxCalls
  /\ goos \in GOOS
  /\ InitService
  /\ InitBoot
  /\ InitSel

DriverNext ==
  \/ WDServiceStart
  \/ WDStep
  \/ WDWaitForBoot
  \/ WDStop
  \/ WDStartAgain
  \/ Child
  \/ \E pid \in Pids : DriverUp(pid)
  \/ DeadlineFire
  \/ ParentCancel
  \/ WfbTimeout
  \/ WfbWakeup
  \/ PollerStep
  \/ Tick

DriverSpec == DriverInit /\ [][DriverNext]_vars

\* C26: when WebDriver.Start has failed after the child was spawned, the
\* handle is nil and the child does not run, and the Start that follows is
\* not rejected with "already running".
C26_FailedStartLeavesNothing ==
  wfb.pc = "done" /\ wfb.res # NilErr /\ Len(log) >= 2 =>
    /\ log[2].cmd = NoCmd
    /\ Len(log) = 2 /\ pc[Owner] = "idle" => procs[log[1].cmd].st # "running"
    /\ Len(log) >= 3 => log[3].res # AlreadyRunning

\* C23: an operation whose chain fails to resolve returns the error of the
\* resolution wrapped with what it was selecting from.
C23_ErrorsNameSelection ==
  Done /\ rs.out.err # NilErr =>
    \E prefix \in {"failed to select elements from ", "failed to select element from "} :
      rs.res = <<prefix>> \o SelectionString(rs.chain) \o <<": ">> \o rs.out.err

(***************************************************************************)
(* Part 4: the session of a Page (connection.go, session.go, page.go).     *)
(* The session is opened from the driver's answer, then operations of the  *)
(* Page send one request each; the browser keeps the depth of the frame it *)
(* is focused on.  Response bodies are the texts the driver sends, and     *)
(* json.Unmarshal is given by what it makes of each of them.               *)
(***************************************************************************)

MaxOps == 4      \* operations on one Page, opening the session included
MaxFrames == 2   \* how deep frames nest in the document

\* Bodies the driver may answer POST /session with.
OpenBodies ==
  { "{\"sessionId\":\"top\"}",
    "{\"value\":{\"sessionId\":\"inner\"}}",
    "{\"sessionId\":\"top\",\"value\":{\"sessionId\":\"inner\"}}",
    "{\"status\":0}",
    "oops" }

\* json.Unmarshal(b, &sessionResponse)
UnmarshalSession(b) ==
  CASE b = "{\"sessionId\":\"top\"}" ->
         [ok |-> TRUE, SessionID |-> "top", ValueSessionID |-> ""]
    [] b = "{\"value\":{\"sessionId\":\"inner\"}}" ->
         [ok |-> TRUE, SessionID |-> "", ValueSessionID |-> "inner"]
    [] b = "{\"sessionId\":\"top\",\"value\":{\"sessionId\":\"inner\"}}" ->
         [ok |-> TRUE, SessionID |-> "top", ValueSessionID |-> "inner"]
    [] b = "{\"status\":0}" ->
         [ok |-> TRUE, SessionID |-> "", ValueSessionID |-> ""]
    [] OTHER -> [ok |-> FALSE, SessionID |-> "", ValueSessionID |-> ""]

\* openSession that looks at Value.SessionID first.
openSessionValueFirst(b, fail) ==
  LET r == UnmarshalSession(b) IN
  IF fail THEN [id |-> "", err |-> <<"client.Do">>]
  ELSE IF ~r.ok THEN [id |-> "", err |-> <<"json">>]
  ELSE IF r.ValueSessionID # "" THEN [id |-> r.ValueSessionID, err |-> NilErr]
  ELSE IF r.SessionID # "" THEN [id |-> r.SessionID, err |-> NilErr]
  ELSE [id |-> "", err |-> NewError("failed to retrieve a session ID")]

\* openSession: the session ID, or the error.
openSession(b, fail) ==
  LET r == UnmarshalSession(b) IN
  IF fail THEN [id |-> "", err |-> <<"client.Do">>]
  ELSE IF ~r.ok THEN [id |-> "", err |-> <<"json">>]
  ELSE IF r.SessionID # "" THEN [id |-> r.SessionID, err |-> NilErr]
  ELSE IF r.ValueSessionID # "" THEN [id |-> r.ValueSessionID, err |-> NilErr]
  ELSE [id |-> "", err |-> NewError("failed to retrieve a session ID")]

\* Bodies the driver may send with a status outside 200..299.
ErrBodies ==
  { "oops",
    "{\"value\":\"gone\"}",
    "{\"value\":{\"error\":\"unknown error\"}}",
    "{\"value\":{\"message\":\"plain\"}}",
    "{\"value\":{\"message\":\"{}\"}}",
    "{\"value\":{\"message\":\"{\\\"errorMessage\\\":\\\"E\\\"}\"}}" }

\* json.Unmarshal(body, &errBody): errBody.Value.Message
UnmarshalErrBody(b) ==
  CASE b = "{\"value\":{\"error\":\"unknown error\"}}" -> [ok |-> TRUE, Message |-> ""]
    [] b = "{\"value\":{\"message\":\"plain\"}}" -> [ok |-> TRUE, Message |-> "plain"]
    [] b = "{\"value\":{\"message\":\"{}\"}}" -> [ok |-> TRUE, Message |-> "{}"]
    [] b = "{\"value\":{\"message\":\"{\\\"errorMessage\\\":\\\"E\\\"}\"}}" ->
         [ok |-> TRUE, Message |-> "{\"errorMessage\":\"E\"}"]
    [] OTHER -> [ok |-> FALSE, Message |-> ""]

\* json.Unmarshal([]byte(errBody.Value.Message), &errMessage)
UnmarshalErrMessage(m) ==
  CASE m = "{\"errorMessage\":\"E\"}" -> [ok |-> TRUE, ErrorMessage |-> "E"]
    [] m = "{}" -> [ok |-> TRUE, ErrorMessage |-> ""]
    [] OTHER -> [ok |-> FALSE, ErrorMessage |-> ""]

toResponseError(body) ==
  LET errBody == UnmarshalErrBody(body)
      errMessage == UnmarshalErrMessage(errBody.Message)
  IN IF ~errBody.ok THEN <<"request unsuccessful: ", body>>
     ELSE IF ~errMessage.ok THEN <<"request unsuccessful: ", errBody.Message>>
     ELSE <<"request unsuccessful: ", errMessage.ErrorMessage>>

\* What the driver may answer a request with: 200, or an error status and
\* a body.
DriverAnswers == {"ok"} \cup ErrBodies

\* Connection.Send with the context ctx: no round trip when the context is
\* done, else the error made of the driver's answer.
Send(ctx, answer) ==
  IF ctx = "cancelled"
    THEN [trip |-> FALSE, err |-> <<"request failed: ", "context canceled">>]
  ELSE IF answer = "ok" THEN [trip |-> TRUE, err |-> NilErr]
  ELSE [trip |-> TRUE, err |-> toResponseError(answer)]

\* The frame the browser is focused on after it has served the request.
Browser(depth, req) ==
  CASE req.path = "frame" /\ req.id = "null" -> 0
    [] req.path = "frame" -> depth + 1
    [] req.path = "frame/parent" -> IF depth > 0 THEN depth - 1 ELSE 0
    [] OTHER -> depth

\* Session.FrameParentWithContext(ctx), as Page.SwitchToParentFrameWithContext
\* calls it.
SwitchToParentFrameWithContext(ctx) ==
  [path |-> "frame/parent", id |-> "", ctx |-> ctx,
   prefix |-> "failed to switch to parent frame: "]

\* Session.FrameWithContext(ctx, nil), as Page.SwitchToRootFrameWithContext
\* calls it.
SwitchToRootFrameWithContext(ctx) ==
  [path |-> "frame", id |-> "null", ctx |-> ctx,
   prefix |-> "failed to switch to original page frame: "]

\* Page.SwitchToRootFrame, in either version of page.go.
SwitchToRootFrame ==
  IF sess.page = "part_004" THEN SwitchToParentFrameWithContext("background")
  ELSE SwitchToRootFrameWithContext("background")

\* Page.MoveMouseByWithContext(ctx, x, y): p.session.MoveTo(nil, offset),
\* which is MoveToWithContext(context.Background(), ...).
MoveMouseByWithContext(ctx) ==
  [path |-> "moveto", id |-> "", ctx |-> "background",
   prefix |-> "failed to move mouse: "]

\* Session.FrameWithContext(ctx, element), as SwitchToFrameWithContext calls
\* it for the element of a frame.
SwitchToFrameWithContext(ctx) ==
  [path |-> "frame", id |-> "element", ctx |-> ctx,
   prefix |-> "failed to switch to frame referred to by: "]

\* The session after the operation op, called with ctx, has sent req and
\* got answer.
Do(op, ctx, req, answer) ==
  LET r == Send(req.ctx, answer) IN
  [sess EXCEPT
     !.left = @ - 1,
     !.frame = IF r.trip /\ r.err = NilErr THEN Browser(@, req) ELSE @,
     !.last = [op |-> op, ctx |-> ctx,
               body |-> IF r.trip /\ answer # "ok" THEN answer ELSE "",
               err |-> IF r.err = NilErr THEN NilErr ELSE <<req.prefix>> \o r.err,
               reqs |-> << [path |-> req.path, id |-> req.id, ctx |-> req.ctx,
                            trip |-> r.trip, from |-> sess.frame] >>]]

\* The contexts an operation may be called with: page.go of part_004 has a
\* ...WithContext form of each operation, that of part_003 has none, and its
\* operations run with context.Background().
Contexts == {"live", "cancelled"}
ContextsOf(version) == IF version = "part_004" THEN Contexts ELSE {"background"}

\* session.OpenWithClient: newConnection, openSession.
PageOpen ==
  /\ sess.conn = "" /\ sess.left > 0
  /\ \E b \in OpenBodies, fail \in BOOLEAN :
       LET r == openSession(b, fail) IN
       sess' = [sess EXCEPT !.conn = r.id, !.left = @ - 1,
                            !.last = [op |-> "Open", ctx |-> "", body |-> b,
                                      err |-> r.err, reqs |-> << >>]]
  /\ UNCHANGED <<impl, heap, chains, doc, rs, svcVars, bootVars>>

PageSwitchToFrame ==
  /\ sess.conn # "" /\ sess.left > 0
  /\ sess.frame < MaxFrames
  /\ \E ctx \in ContextsOf(sess.page), answer \in DriverAnswers :
       sess' = Do("SwitchToFrameWithContext", ctx, SwitchToFrameWithContext(ctx), answer)
  /\ UNCHANGED <<impl, heap, chains, doc, rs, svcVars, bootVars>>

PageSwitchToParentFrame ==
  /\ sess.conn # "" /\ sess.left > 0
  /\ \E ctx \in ContextsOf(sess.page), answer \in DriverAnswers :
       sess' = Do("SwitchToParentFrameWithContext", ctx,
                  SwitchToParentFrameWithContext(ctx), answer)
  /\ UNCHANGED <<impl, heap, chains, doc, rs, svcVars, bootVars>>

PageSwitchToRootFrameWithContext ==
  /\ sess.conn # "" /\ sess.left > 0
  /\ \E ctx \in ContextsOf(sess.page), answer \in DriverAnswers :
       sess' = Do("SwitchToRootFrameWithContext", ctx,
                  SwitchToRootFrameWithContext(ctx), answer)
  /\ UNCHANGED <<impl, heap, chains, doc, rs, svcVars, bootVars>>

PageSwitchToRootFrame ==
  /\ sess.conn # "" /\ sess.left > 0
  /\ \E answer \in DriverAnswers :
       sess' = Do("SwitchToRootFrame", "background", SwitchToRootFrame, answer)
  /\ UNCHANGED <<impl, heap, chains, doc, rs, svcVars, bootVars>>

PageMoveMouseBy ==
  /\ sess.conn # "" /\ sess.left > 0
  /\ \E ctx \in ContextsOf(sess.page), answer \in DriverAnswers :
       sess' = Do("MoveMouseByWithContext", ctx, MoveMouseByWithContext(ctx), answer)
  /\ UNCHANGED <<impl, heap, chains, doc, rs, svcVars, bootVars>>

PageInit ==
  /\ NoService
  /\ impl = "clonePlusOne"
  /\ heap = << >>
  /\ chains = << [ss |-> NilSelectors, snap |-> << >>, origin |-> NoOrigin] >>
  /\ doc = NoDoc
  /\ rs = NoResolution
  /\ \E v \in {"part_003", "part_004"} :
       sess = [NoSession EXCEPT !.page = v, !.left = MaxOps]

PageNext ==
  \/ PageOpen
  \/ PageSwitchToFrame
  \/ PageSwitchToParentFrame
  \/ PageSwitchToRootFrameWithContext
  \/ PageSwitchToRootFrame
  \/ PageMoveMouseBy

PageSpec == PageInit /\ [][PageNext]_vars

(***************************************************************************)
(* Properties of the session.                                              *)
(***************************************************************************)

Opened == sess.last.op = "Open"
Answered == sess.last.op \notin {"", "Open"} /\ sess.last.body # ""

\* C21: for an answer outside 200..299 the error carries the inner
\* errorMessage when both decodings succeed, and the body as it was received
\* when either fails.
C21_RawBodyOnFailedUnwrap ==
  Answered =>
    LET errBody == UnmarshalErrBody(sess.last.body)
        errMessage == UnmarshalErrMessage(errBody.Message)
    IN SubSeq(sess.last.err, 2, 3) =
         <<"request unsuccessful: ",
           IF errBody.ok /\ errMessage.ok THEN errMessage.ErrorMessage
           ELSE sess.last.body>>

\* C22: when the driver's answer to POST /session decodes, the session ID is
\* the top-level one if it is not empty, else the one under value if that
\* is not empty, else the open fails with "failed to retrieve a session ID";
\* a failed open makes no Connection.
C22_SessionIDPrecedence ==
  Opened =>
    LET r == UnmarshalSession(sess.last.body) IN
    /\ sess.last.err # NilErr => sess.conn = ""
    /\ r.ok /\ sess.last.err # <<"client.Do">> =>
         /\ r.SessionID # "" => sess.conn = r.SessionID /\ sess.last.err = NilErr
         /\ r.SessionID = "" /\ r.ValueSessionID # "" =>
              sess.conn = r.ValueSessionID /\ sess.last.err = NilErr
         /\ r.SessionID = "" /\ r.ValueSessionID = "" =>
              sess.last.err = NewError("failed to retrieve a session ID")

\* The answer held both session IDs, and the top-level one was taken.
C22_Witness ==
  /\ Opened /\ sess.conn = "top"
  /\ UnmarshalSession(sess.last.body).ValueSessionID = "inner"

\* C24: an operation called with a context sends its requests with that
\* context; called with a cancelled one it makes no round trip and returns
\* an error.
C24_ContextReachesRequests ==
  sess.last.ctx \in Contexts =>
    /\ \A q \in 1..Len(sess.last.reqs) : sess.last.reqs[q].ctx = sess.last.ctx
    /\ sess.last.ctx = "cancelled" =>
         /\ \A q \in 1..Len(sess.last.reqs) : ~sess.last.reqs[q].trip
         /\ sess.last.err # NilErr

\* C25: after SwitchToRootFrame has succeeded the browser is focused on the
\* root frame, however deep it was before.
C25_RootFrameIsRoot ==
  sess.last.op = "SwitchToRootFrame" /\ sess.last.err = NilErr =>
    sess.frame = 0

====
